---- MODULE Spec2Model ----
(***************************************************************************)
(* Orange/modelling/base.py: the Fitter dispatcher.  A Fitter subtype binds *)
(* a learner class to each problem type through __fits__; an instance      *)
(* picks the learner from the target of the data it is called on, builds   *)
(* it lazily with the keyword arguments the learner's __init__ names,      *)
(* caches it per problem type and forwards unknown attributes to it.       *)
(***************************************************************************)
EXTENDS Integers, Sequences, FiniteSets, TLC

----------------------------------------------------------------------------
(* Bounds of the model *)

\* calls of one learner class's constructor that a run may make per kind
MaxCtorCalls == 2

----------------------------------------------------------------------------
(* Python values *)

\* None where the other values are integers (problem_type, kwargs values)
None == -1
\* None where the other values are objects (classes, learners, results)
NoneObj == [py |-> "None"]

\* CLASSIFICATION, REGRESSION = range(2)
CLASSIFICATION == 0
REGRESSION == 1
ProblemTypes == {CLASSIFICATION, REGRESSION}

\* LearnerTypes = namedtuple('LearnerTypes', ['classification', 'regression'])
LearnerTypes(c, r) == [classification |-> c, regression |-> r]

\* tuple indexing of a LearnerTypes value: __fits__[kind]
FitsAt(fits, kind) ==
    IF kind = CLASSIFICATION THEN fits.classification ELSE fits.regression

\* isinstance(v, LearnerTypes)
IsLearnerTypes(v) == DOMAIN v = {"classification", "regression"}

----------------------------------------------------------------------------
(* The collaborators: learner classes and data *)

\* A learner class, as far as the Fitter looks at it: the code object of its
\* __init__.  co_varnames lists the arguments (self first, co_argcount of
\* them) and after them the local variables of the function body.
ClsLearner ==
    [cname |-> "ClsLearner",
     co_varnames |-> <<"self", "a", "c", "preprocessors">>, co_argcount |-> 4]
RegLearner ==
    [cname |-> "RegLearner",
     co_varnames |-> <<"self", "a", "b">>, co_argcount |-> 3]
\* __init__(self, a, preprocessors) whose body assigns a local variable b
RegLearnerLocal ==
    [cname |-> "RegLearnerLocal",
     co_varnames |-> <<"self", "a", "preprocessors", "b">>, co_argcount |-> 3]

ClassificationLearners == {ClsLearner}
RegressionLearners == {RegLearner, RegLearnerLocal}

\* the values a class body can give __fits__ (NoneObj: it gives none, and the
\* subtype inherits Fitter.__fits__ = None)
FitsValues ==
    {NoneObj} \cup
    {LearnerTypes(c, r) : c \in ClassificationLearners \cup {NoneObj},
                          r \in RegressionLearners \cup {NoneObj}}

\* the class bodies: whether the body defines a (truthy) name, and __fits__
Namespaces == [name : BOOLEAN, fits : FitsValues]

\* data.domain.has_discrete_class
Datasets == [has_discrete_class : BOOLEAN]

\* the keyword arguments a caller can give, besides preprocessors: any part
\* of {a: 1, b: 2, c: 3}
AllConfig == [a |-> 1, b |-> 2, c |-> 3]
Configs == {[k \in keys |-> AllConfig[k]] : keys \in SUBSET DOMAIN AllConfig}
PreprocessorValues == {None, 1}

\* attributes read through the Fitter that the Fitter does not define:
\* the first is an attribute of every learner, the second of none
Items == {"args", "coef"}

\* the parameter names cls.__init__ accepts, self apart
Params(cls) == {cls.co_varnames[i] : i \in 2..cls.co_argcount}

\* cls(**args): a keyword __init__ does not name is a TypeError; the body of
\* __init__ may raise (raises) or give the new learner, whose
\* use_default_preprocessors is the class default
Construct(cls, args, n, kind, raises) ==
    IF ~(DOMAIN args \subseteq Params(cls))
    THEN [raised |-> "TypeError", obj |-> NoneObj]
    ELSE IF raises
    THEN [raised |-> "CtorError", obj |-> NoneObj]
    ELSE [raised |-> "",
          obj |-> [id |-> [kind |-> kind, n |-> n], cls |-> cls.cname,
                   args |-> args, use_default_preprocessors |-> FALSE]]

\* learner(data): the learner fits a model to the data, or raises
Fit(learner, data, raises) ==
    IF raises
    THEN [raised |-> "FitError", ret |-> NoneObj]
    ELSE [raised |-> "", ret |-> [model_of |-> learner.id, data |-> data]]

\* getattr(learner, item)
GetAttrOf(learner, item) ==
    IF item \in DOMAIN learner
    THEN [raised |-> "", ret |-> learner[item]]
    ELSE [raised |-> "AttributeError", ret |-> NoneObj]

----------------------------------------------------------------------------
(* State *)

VARIABLES
    klass,                      \* the subtype defined (its __fits__), NoneObj before
    defError,                   \* what defining the subtype raised, "" if nothing
    created,                    \* whether the instance has been constructed
    kwargs,                     \* self.kwargs
    use_default_preprocessors,  \* self.use_default_preprocessors
    problem_type,               \* self.problem_type
    learners,                   \* self.__learners
    ctorCalls,                  \* per kind, the calls of the learner constructor
    last,                       \* the last operation, as caller and learner saw it
    hist,                       \* history of the calls of the instance on data
    thr                         \* the threads that call the instance concurrently

vars == <<klass, defError, created, kwargs, use_default_preprocessors,
          problem_type, learners, ctorCalls, last, hist, thr>>

inst == <<kwargs, use_default_preprocessors, problem_type, learners>>

\* the record of an operation: what was called with what (op; arg, the
\* problem type resolved; data, the data of a call; item, the attribute
\* read; was, self.problem_type before the operation), what the
\* caller got (raised, ret), and what the learner side did in it: the
\* constructor call (ctor: "", "ok" or the error it raised, with ctorCls and
\* ctorArgs), the learner resolved (learner), and the fit (fit: "", "ok" or
\* the error, with the learner that got the data and what it returned)
NoOp ==
    [op |-> "none", arg |-> None, data |-> NoneObj, item |-> "",
     was |-> None, raised |-> "", ret |-> NoneObj,
     ctor |-> "", ctorCls |-> NoneObj, ctorArgs |-> NoneObj,
     learner |-> NoneObj,
     fit |-> "", fitBy |-> NoneObj, fitData |-> NoneObj, fitRet |-> NoneObj]

\* hist.invoked: the target kind of the data of the most recent call of the
\* instance, None before the first; hist.served: the learner that the most
\* recent call that returned a model used, NoneObj before the first
NoHist == [invoked |-> None, served |-> NoneObj]

----------------------------------------------------------------------------
(* Fitter *)

\* FitterMeta.__new__: a class body with a name must give a LearnerTypes as
\* __fits__; "" when the class is created, else the error raised
FitterMeta_new(ns) ==
    IF ns.name /\ ~IsLearnerTypes(ns.fits) THEN "AssertionError" ELSE ""

\* Fitter._get_learner_kwargs: set(learner.__init__.__code__.co_varnames[1:])
get_learner_kwargs(learner) ==
    {learner.co_varnames[i] : i \in 2..Len(learner.co_varnames)}

\* Fitter.__get_kwargs
get_kwargs(kw, kind) ==
    LET params == get_learner_kwargs(FitsAt(klass.fits, kind))
    IN  [k \in params \cap DOMAIN kw |-> kw[k]]

\* Fitter.__handled_problem_types
handled_problem_types ==
    (IF klass.fits.classification # NoneObj THEN {CLASSIFICATION} ELSE {}) \cup
    (IF klass.fits.regression # NoneObj THEN {REGRESSION} ELSE {})

\* a faulty kwargs_after: the dictionary is filtered in place
kwargs_after_filtered(kw, kind) ==
    LET params == get_learner_kwargs(FitsAt(klass.fits, kind))
    IN  [k \in params \cap DOMAIN kw |-> kw[k]]

\* Fitter.__get_kwargs, line 70: self.kwargs, which is passed in by
\* reference, after the comprehension has built the new dictionary from it
kwargs_after(kw, kind) == kw

\* the result of get_learner when it raises before it reaches a learner class
Raise(err) ==
    [raised |-> err, ret |-> NoneObj, learners |-> learners,
     kwargs |-> kwargs,
     ctorCalls |-> ctorCalls, ctor |-> "", ctorCls |-> NoneObj,
     ctorArgs |-> NoneObj]

\* a faulty needs_build: the cache is not looked at
needs_build_always(kind) == TRUE

\* get_learner, line 61: no learner of the kind is cached yet
needs_build(kind) == learners[kind] = NoneObj

\* a faulty propagate: the learner keeps the flag of its class
propagate_skipped(learner) == learner

\* get_learner, line 64: the new learner gets the Fitter's flag
propagate(learner) ==
    [learner EXCEPT !.use_default_preprocessors = use_default_preprocessors]

\* a faulty resolve: the new learner is cached in the slot of the other kind
resolve_caching_other(kind, ctorRaises) ==
    IF needs_build(kind)
    THEN LET cls  == FitsAt(klass.fits, kind)
             args == get_kwargs(kwargs, kind)
             made == Construct(cls, args, ctorCalls[kind] + 1, kind, ctorRaises)
             calls == [ctorCalls EXCEPT ![kind] = @ + 1]
         IN  IF made.raised # ""
             THEN [raised |-> made.raised, ret |-> NoneObj,
                   learners |-> learners, kwargs |-> kwargs_after(kwargs, kind),
                   ctorCalls |-> calls,
                   ctor |-> made.raised, ctorCls |-> cls, ctorArgs |-> args]
             ELSE [raised |-> "", ret |-> propagate(made.obj),
                   learners |-> [learners EXCEPT ![1 - kind] = propagate(made.obj)],
                   kwargs |-> kwargs_after(kwargs, kind),
                   ctorCalls |-> calls,
                   ctor |-> "ok", ctorCls |-> cls, ctorArgs |-> args]
    ELSE [raised |-> "", ret |-> learners[kind], learners |-> learners,
          kwargs |-> kwargs,
          ctorCalls |-> ctorCalls, ctor |-> "", ctorCls |-> NoneObj,
          ctorArgs |-> NoneObj]

\* a faulty resolve: a cached learner is given the Fitter's flag again
\* whenever it is returned
resolve_refreshing(kind, ctorRaises) ==
    IF needs_build(kind)
    THEN LET cls  == FitsAt(klass.fits, kind)
             args == get_kwargs(kwargs, kind)
             made == Construct(cls, args, ctorCalls[kind] + 1, kind, ctorRaises)
             calls == [ctorCalls EXCEPT ![kind] = @ + 1]
         IN  IF made.raised # ""
             THEN [raised |-> made.raised, ret |-> NoneObj,
                   learners |-> learners, kwargs |-> kwargs_after(kwargs, kind),
                   ctorCalls |-> calls,
                   ctor |-> made.raised, ctorCls |-> cls, ctorArgs |-> args]
             ELSE [raised |-> "", ret |-> propagate(made.obj),
                   learners |-> [learners EXCEPT ![kind] = propagate(made.obj)],
                   kwargs |-> kwargs_after(kwargs, kind),
                   ctorCalls |-> calls,
                   ctor |-> "ok", ctorCls |-> cls, ctorArgs |-> args]
    ELSE [raised |-> "", ret |-> propagate(learners[kind]),
          learners |-> [learners EXCEPT ![kind] = propagate(learners[kind])],
          kwargs |-> kwargs,
          ctorCalls |-> ctorCalls, ctor |-> "", ctorCls |-> NoneObj,
          ctorArgs |-> NoneObj]

\* get_learner, lines 61-66: build and cache the learner of a handled kind
\* unless one is cached, and return the cached one
resolve(kind, ctorRaises) ==
    IF needs_build(kind)
    THEN LET cls  == FitsAt(klass.fits, kind)
             args == get_kwargs(kwargs, kind)
             made == Construct(cls, args, ctorCalls[kind] + 1, kind, ctorRaises)
             calls == [ctorCalls EXCEPT ![kind] = @ + 1]
         IN  IF made.raised # ""
             THEN [raised |-> made.raised, ret |-> NoneObj,
                   learners |-> learners, kwargs |-> kwargs_after(kwargs, kind),
                   ctorCalls |-> calls,
                   ctor |-> made.raised, ctorCls |-> cls, ctorArgs |-> args]
             ELSE [raised |-> "", ret |-> propagate(made.obj),
                   learners |-> [learners EXCEPT ![kind] = propagate(made.obj)],
                   kwargs |-> kwargs_after(kwargs, kind),
                   ctorCalls |-> calls,
                   ctor |-> "ok", ctorCls |-> cls, ctorArgs |-> args]
    ELSE [raised |-> "", ret |-> learners[kind], learners |-> learners,
          kwargs |-> kwargs,
          ctorCalls |-> ctorCalls, ctor |-> "", ctorCls |-> NoneObj,
          ctorArgs |-> NoneObj]

\* a faulty get_learner: a kind without a learner falls back on the other kind
get_learner_fallback(kind, ctorRaises) ==
    IF ~IsLearnerTypes(klass.fits) THEN Raise("AttributeError")
    ELSE IF kind \in handled_problem_types THEN resolve(kind, ctorRaises)
    ELSE IF kind \in ProblemTypes /\ (1 - kind) \in handled_problem_types
    THEN resolve(1 - kind, ctorRaises)
    ELSE Raise("AttributeError")

\* Fitter.get_learner: what it raises or returns, the cache and the count of
\* constructor calls it leaves, and the constructor call it made, if any.
\* self.__fits__.classification is an AttributeError when __fits__ is None.
get_learner(kind, ctorRaises) ==
    IF ~IsLearnerTypes(klass.fits) THEN Raise("AttributeError")
    ELSE IF kind \notin handled_problem_types THEN Raise("AttributeError")
    ELSE resolve(kind, ctorRaises)

\* whether get_learner(kind) would call a learner constructor
Constructs(kind) ==
    /\ IsLearnerTypes(klass.fits)
    /\ kind \in handled_problem_types
    /\ needs_build(kind)

\* the constructor calls of a run are bounded
WithinBound(kind) == Constructs(kind) => ctorCalls[kind] < MaxCtorCalls

\* the learner's constructor is called, and may raise, only where
\* get_learner builds a learner
CtorOutcomes(kind) == IF Constructs(kind) THEN BOOLEAN ELSE {FALSE}

\* a faulty problem_type_of: the two problem types swapped
problem_type_of_swapped(data) ==
    IF data.has_discrete_class THEN REGRESSION ELSE CLASSIFICATION

\* Fitter.__call__, lines 51-52: the problem type of the data
problem_type_of(data) ==
    IF data.has_discrete_class THEN CLASSIFICATION ELSE REGRESSION

\* a faulty call: an error of the learner is raised as an AttributeError
call_wrapping(data, ctorRaises, fitRaises) ==
    LET kind == problem_type_of(data)
        r    == get_learner(kind, ctorRaises)
        f    == Fit(r.ret, data, fitRaises)
    IN  IF r.raised # ""
        THEN [problem_type |-> kind, got |-> r, raised |-> "AttributeError",
              ret |-> NoneObj, fit |-> "", fitBy |-> NoneObj,
              fitData |-> NoneObj, fitRet |-> NoneObj]
        ELSE [problem_type |-> kind, got |-> r,
              raised |-> IF f.raised = "" THEN "" ELSE "AttributeError",
              ret |-> f.ret,
              fit |-> IF f.raised = "" THEN "ok" ELSE f.raised,
              fitBy |-> r.ret, fitData |-> data, fitRet |-> f.ret]

\* a faulty call: the problem type is recorded by the first call only
call_recording_once(data, ctorRaises, fitRaises) ==
    LET kind == problem_type_of(data)
        kept == IF problem_type = None THEN kind ELSE problem_type
        r    == get_learner(kind, ctorRaises)
        f    == Fit(r.ret, data, fitRaises)
    IN  IF r.raised # ""
        THEN [problem_type |-> kept, got |-> r, raised |-> r.raised,
              ret |-> NoneObj, fit |-> "", fitBy |-> NoneObj,
              fitData |-> NoneObj, fitRet |-> NoneObj]
        ELSE [problem_type |-> kept, got |-> r, raised |-> f.raised,
              ret |-> f.ret,
              fit |-> IF f.raised = "" THEN "ok" ELSE f.raised,
              fitBy |-> r.ret, fitData |-> data, fitRet |-> f.ret]

\* a faulty call: the problem type is put back when get_learner raises
\* AttributeError
call_restoring(data, ctorRaises, fitRaises) ==
    LET kind == problem_type_of(data)
        r    == get_learner(kind, ctorRaises)
        f    == Fit(r.ret, data, fitRaises)
    IN  IF r.raised # ""
        THEN [problem_type |-> IF r.raised = "AttributeError"
                               THEN problem_type ELSE kind,
              got |-> r, raised |-> r.raised,
              ret |-> NoneObj, fit |-> "", fitBy |-> NoneObj,
              fitData |-> NoneObj, fitRet |-> NoneObj]
        ELSE [problem_type |-> kind, got |-> r, raised |-> f.raised,
              ret |-> f.ret,
              fit |-> IF f.raised = "" THEN "ok" ELSE f.raised,
              fitBy |-> r.ret, fitData |-> data, fitRet |-> f.ret]

\* Fitter.__call__: the problem type it records, the learner it resolves,
\* and what calling that learner on the data gives
call(data, ctorRaises, fitRaises) ==
    LET kind == problem_type_of(data)
        r    == get_learner(kind, ctorRaises)
        f    == Fit(r.ret, data, fitRaises)
    IN  IF r.raised # ""
        THEN [problem_type |-> kind, got |-> r, raised |-> r.raised,
              ret |-> NoneObj, fit |-> "", fitBy |-> NoneObj,
              fitData |-> NoneObj, fitRet |-> NoneObj]
        ELSE [problem_type |-> kind, got |-> r, raised |-> f.raised,
              ret |-> f.ret,
              fit |-> IF f.raised = "" THEN "ok" ELSE f.raised,
              fitBy |-> r.ret, fitData |-> data, fitRet |-> f.ret]

\* a faulty getattr: the attribute is read from the classification learner
getattr_of_classifier(item, ctorRaises) ==
    LET r == get_learner(CLASSIFICATION, ctorRaises)
        a == GetAttrOf(r.ret, item)
    IN  IF r.raised # ""
        THEN [got |-> r, raised |-> r.raised, ret |-> NoneObj]
        ELSE [got |-> r, raised |-> a.raised, ret |-> a.ret]

\* a faulty getattr: without a problem type, a learner the subtype binds is
\* picked
getattr_picking(item, ctorRaises) ==
    LET kind == IF problem_type # None \/ ~IsLearnerTypes(klass.fits)
                   \/ handled_problem_types = {}
                THEN problem_type
                ELSE CHOOSE k \in handled_problem_types : TRUE
        r == get_learner(kind, ctorRaises)
        a == GetAttrOf(r.ret, item)
    IN  IF r.raised # ""
        THEN [got |-> r, raised |-> r.raised, ret |-> NoneObj]
        ELSE [got |-> r, raised |-> a.raised, ret |-> a.ret]

\* Fitter.__getattr__: getattr(self.get_learner(self.problem_type), item)
getattr(item, ctorRaises) ==
    LET r == get_learner(problem_type, ctorRaises)
        a == GetAttrOf(r.ret, item)
    IN  IF r.raised # ""
        THEN [got |-> r, raised |-> r.raised, ret |-> NoneObj]
        ELSE [got |-> r, raised |-> a.raised, ret |-> a.ret]

----------------------------------------------------------------------------
(* Operations *)

Init ==
    /\ klass = NoneObj
    /\ defError = ""
    /\ created = FALSE
    /\ kwargs = [k \in {"preprocessors"} |-> None]
    /\ use_default_preprocessors = FALSE
    /\ problem_type = None
    /\ learners = [k \in ProblemTypes |-> NoneObj]
    /\ ctorCalls = [k \in ProblemTypes |-> 0]
    /\ last = NoOp
    /\ hist = NoHist
    /\ thr = <<>>

\* class X(Fitter): <ns>
DefineSubtype(ns) ==
    /\ klass = NoneObj
    /\ defError = ""
    /\ defError' = FitterMeta_new(ns)
    /\ klass' = IF FitterMeta_new(ns) = "" THEN [fits |-> ns.fits] ELSE NoneObj
    /\ last' = [NoOp EXCEPT !.op = "define", !.raised = FitterMeta_new(ns)]
    /\ UNCHANGED <<created, inst, ctorCalls, hist, thr>>

\* Fitter.__init__(preprocessors=pp, **cfg)
New(pp, cfg) ==
    /\ klass # NoneObj
    /\ ~created
    /\ created' = TRUE
    /\ kwargs' = [k \in DOMAIN cfg \cup {"preprocessors"} |->
                    IF k = "preprocessors" THEN pp ELSE cfg[k]]
    /\ problem_type' = None
    /\ learners' = [k \in ProblemTypes |-> NoneObj]
    /\ last' = [NoOp EXCEPT !.op = "init"]
    /\ UNCHANGED <<klass, defError, use_default_preprocessors, ctorCalls, hist,
                   thr>>

\* fitter.use_default_preprocessors = b
SetUseDefaultPreprocessors(b) ==
    /\ created
    /\ use_default_preprocessors' = b
    /\ last' = [NoOp EXCEPT !.op = "set_flag"]
    /\ UNCHANGED <<klass, defError, created, kwargs, problem_type, learners,
                   ctorCalls, hist, thr>>

\* Fitter.get_learner(kind), called from outside
GetLearner(kind) ==
    /\ created
    /\ WithinBound(kind)
    /\ \E ctorRaises \in CtorOutcomes(kind) :
       LET r == get_learner(kind, ctorRaises)
       IN  /\ learners' = r.learners
           /\ kwargs' = r.kwargs
           /\ ctorCalls' = r.ctorCalls
           /\ last' = [NoOp EXCEPT !.op = "get_learner", !.arg = kind,
                          !.was = problem_type,
                          !.raised = r.raised, !.ret = r.ret,
                          !.ctor = r.ctor, !.ctorCls = r.ctorCls,
                          !.ctorArgs = r.ctorArgs, !.learner = r.ret]
    /\ UNCHANGED <<klass, defError, created, use_default_preprocessors,
                   problem_type, hist, thr>>

\* fitter(data)
Call(data) ==
    /\ created
    /\ WithinBound(problem_type_of(data))
    /\ \E ctorRaises \in CtorOutcomes(problem_type_of(data)), fitRaises \in BOOLEAN :
       LET c == call(data, ctorRaises, fitRaises)
       IN  /\ problem_type' = c.problem_type
           /\ learners' = c.got.learners
           /\ kwargs' = c.got.kwargs
           /\ ctorCalls' = c.got.ctorCalls
           /\ last' = [op |-> "call", arg |-> c.problem_type,
                       data |-> data, item |-> "", was |-> problem_type,
                       raised |-> c.raised, ret |-> c.ret,
                       ctor |-> c.got.ctor, ctorCls |-> c.got.ctorCls,
                       ctorArgs |-> c.got.ctorArgs, learner |-> c.got.ret,
                       fit |-> c.fit, fitBy |-> c.fitBy,
                       fitData |-> c.fitData, fitRet |-> c.fitRet]
           /\ hist' = [invoked |-> IF data.has_discrete_class
                                     THEN CLASSIFICATION ELSE REGRESSION,
                       served |-> IF c.raised = "" THEN c.fitBy ELSE hist.served]
    /\ UNCHANGED <<klass, defError, created, use_default_preprocessors, thr>>

\* fitter.<item>, for an item the Fitter does not define
GetAttr(item) ==
    /\ created
    /\ WithinBound(problem_type)
    /\ \E ctorRaises \in CtorOutcomes(problem_type) :
       LET g == getattr(item, ctorRaises)
       IN  /\ learners' = g.got.learners
           /\ kwargs' = g.got.kwargs
           /\ ctorCalls' = g.got.ctorCalls
           /\ last' = [NoOp EXCEPT !.op = "getattr", !.arg = problem_type,
                          !.item = item, !.was = problem_type,
                          !.raised = g.raised, !.ret = g.ret,
                          !.ctor = g.got.ctor, !.ctorCls = g.got.ctorCls,
                          !.ctorArgs = g.got.ctorArgs, !.learner = g.got.ret]
    /\ UNCHANGED <<klass, defError, created, use_default_preprocessors,
                   problem_type, hist, thr>>

Next ==
    \/ \E ns \in Namespaces : DefineSubtype(ns)
    \/ \E pp \in PreprocessorValues, cfg \in Configs : New(pp, cfg)
    \/ \E b \in BOOLEAN : SetUseDefaultPreprocessors(b)
    \/ \E kind \in ProblemTypes \cup {None} : GetLearner(kind)
    \/ \E data \in Datasets : Call(data)
    \/ \E item \in Items : GetAttr(item)

Spec == Init /\ [][Next]_vars

----------------------------------------------------------------------------
(* Two threads calling one instance, without a lock *)

\* Each thread calls the instance once on data; a thread can be switched
\* out between any two of the reads and writes of self that __call__ and
\* get_learner make.
Threads == {"t1", "t2"}

\* the subtypes and configurations of the shared instance
ConcFits ==
    {LearnerTypes(ClsLearner, RegLearner), LearnerTypes(ClsLearner, NoneObj)}
ConcConfigs == {[k \in {"a"} |-> AllConfig[k]], AllConfig}

\* a thread before its call.  pc: where the thread is; data: the data of its
\* call; kind: the problem_type it passed to get_learner; local: the learner
\* it constructed; ret: the learner get_learner returned to it; raised, fit,
\* fitBy: how its call ended.  History: sawEmpty, whether the slot was None
\* when the thread tested it at line 61; raced, whether another thread
\* assigned self.problem_type between this thread's assignment and its read.
IdleThread ==
    [pc |-> "idle", data |-> NoneObj, kind |-> None, local |-> NoneObj,
     ret |-> NoneObj, raised |-> "", fit |-> "", fitBy |-> NoneObj,
     sawEmpty |-> FALSE, raced |-> FALSE]

InitConc ==
    /\ klass \in {[fits |-> f] : f \in ConcFits}
    /\ defError = ""
    /\ created = TRUE
    /\ kwargs \in {[k \in DOMAIN cfg \cup {"preprocessors"} |->
                      IF k = "preprocessors" THEN None ELSE cfg[k]] :
                   cfg \in ConcConfigs}
    /\ use_default_preprocessors \in BOOLEAN
    /\ problem_type = None
    /\ learners = [k \in ProblemTypes |-> NoneObj]
    /\ ctorCalls = [k \in ProblemTypes |-> 0]
    /\ last = NoOp
    /\ hist = NoHist
    /\ thr = [t \in Threads |-> IdleThread]

\* __call__, lines 51-52: self.problem_type = ... from the data
CallSetProblemType(t, data) ==
    /\ thr[t].pc = "idle"
    /\ problem_type' = problem_type_of(data)
    /\ thr' = [u \in Threads |->
                 IF u = t THEN [thr[t] EXCEPT !.pc = "read", !.data = data]
                 ELSE IF thr[u].pc = "read" THEN [thr[u] EXCEPT !.raced = TRUE]
                 ELSE thr[u]]
    /\ UNCHANGED <<klass, defError, created, kwargs, use_default_preprocessors,
                   learners, ctorCalls, last, hist>>

\* __call__, line 53: self.problem_type is read as the argument of get_learner
CallReadProblemType(t) ==
    /\ thr[t].pc = "read"
    /\ thr' = [thr EXCEPT ![t].pc = "handled", ![t].kind = problem_type]
    /\ UNCHANGED <<klass, defError, created, inst, ctorCalls, last, hist>>

\* get_learner, lines 58-60
GetLearnerCheckHandled(t) ==
    /\ thr[t].pc = "handled"
    /\ thr' = IF thr[t].kind \in handled_problem_types
              THEN [thr EXCEPT ![t].pc = "cache"]
              ELSE [thr EXCEPT ![t].pc = "done", ![t].raised = "AttributeError"]
    /\ UNCHANGED <<klass, defError, created, inst, ctorCalls, last, hist>>

\* get_learner, line 61
GetLearnerCheckCache(t) ==
    /\ thr[t].pc = "cache"
    /\ thr' = [thr EXCEPT
                 ![t].pc = IF needs_build(thr[t].kind) THEN "construct" ELSE "return",
                 ![t].sawEmpty = (learners[thr[t].kind] = NoneObj)]
    /\ UNCHANGED <<klass, defError, created, inst, ctorCalls, last, hist>>

\* get_learner, lines 62-63
GetLearnerConstruct(t) ==
    /\ thr[t].pc = "construct"
    /\ \E ctorRaises \in BOOLEAN :
       LET kind == thr[t].kind
           made == Construct(FitsAt(klass.fits, kind), get_kwargs(kwargs, kind),
                             ctorCalls[kind] + 1, kind, ctorRaises)
       IN  /\ thr' = IF made.raised # ""
                     THEN [thr EXCEPT ![t].pc = "done", ![t].raised = made.raised]
                     ELSE [thr EXCEPT ![t].pc = "flag", ![t].local = made.obj]
           /\ kwargs' = kwargs_after(kwargs, kind)
           /\ ctorCalls' = [ctorCalls EXCEPT ![kind] = @ + 1]
    /\ UNCHANGED <<klass, defError, created, use_default_preprocessors,
                   problem_type, learners, last, hist>>

\* get_learner, line 64
GetLearnerSetFlag(t) ==
    /\ thr[t].pc = "flag"
    /\ thr' = [thr EXCEPT ![t].pc = "store", ![t].local = propagate(thr[t].local)]
    /\ UNCHANGED <<klass, defError, created, inst, ctorCalls, last, hist>>

\* get_learner, line 65
GetLearnerStore(t) ==
    /\ thr[t].pc = "store"
    /\ learners' = [learners EXCEPT ![thr[t].kind] = thr[t].local]
    /\ thr' = [thr EXCEPT ![t].pc = "return"]
    /\ UNCHANGED <<klass, defError, created, kwargs, use_default_preprocessors,
                   problem_type, ctorCalls, last, hist>>

\* get_learner, line 66: the slot is read again for the return value
GetLearnerReturn(t) ==
    /\ thr[t].pc = "return"
    /\ thr' = [thr EXCEPT ![t].pc = "fit", ![t].ret = learners[thr[t].kind]]
    /\ UNCHANGED <<klass, defError, created, inst, ctorCalls, last, hist>>

\* __call__, line 53: the learner returned is called on the data
CallFit(t) ==
    /\ thr[t].pc = "fit"
    /\ \E fitRaises \in BOOLEAN :
       LET f == Fit(thr[t].ret, thr[t].data, fitRaises)
       IN  thr' = [thr EXCEPT ![t].pc = "done", ![t].raised = f.raised,
                      ![t].fit = IF f.raised = "" THEN "ok" ELSE f.raised,
                      ![t].fitBy = thr[t].ret]
    /\ UNCHANGED <<klass, defError, created, inst, ctorCalls, last, hist>>

NextConc ==
    \E t \in Threads :
       \/ \E data \in Datasets : CallSetProblemType(t, data)
       \/ CallReadProblemType(t)
       \/ GetLearnerCheckHandled(t)
       \/ GetLearnerCheckCache(t)
       \/ GetLearnerConstruct(t)
       \/ GetLearnerSetFlag(t)
       \/ GetLearnerStore(t)
       \/ GetLearnerReturn(t)
       \/ CallFit(t)

SpecConc == InitConc /\ [][NextConc]_vars

----------------------------------------------------------------------------
(* Properties *)

\* the problem type of data: CLASSIFICATION for a discrete target
TargetKind(d) == IF d.has_discrete_class THEN CLASSIFICATION ELSE REGRESSION

Other(kind) == 1 - kind

\* the subtype binds a learner to both problem types
BothBound ==
    /\ klass # NoneObj
    /\ IsLearnerTypes(klass.fits)
    /\ klass.fits.classification # NoneObj
    /\ klass.fits.regression # NoneObj

\* the subtype has a binding whose slot for kind is None
NullSlot(kind) ==
    /\ klass # NoneObj
    /\ IsLearnerTypes(klass.fits)
    /\ kind \in ProblemTypes
    /\ FitsAt(klass.fits, kind) = NoneObj

\* the constructor call of the last operation raised
CtorRaised(l) == l.ctor \notin {"", "ok"}

\* C1: with both learners bound, a call on data hands the data to the cached
\* learner of the data's target kind, which was built by the class bound to
\* that kind (unless the constructor raised and there is no learner); the
\* cache slot of the other kind is left as it was.
C1_CallDispatchesOnTarget ==
    [][(last'.op = "call" /\ BothBound) =>
        LET kind == TargetKind(last'.data)
        IN  /\ learners'[Other(kind)] = learners[Other(kind)]
            /\ ctorCalls'[Other(kind)] = ctorCalls[Other(kind)]
            /\ CtorRaised(last') =>
                  /\ last'.fit = ""
                  /\ learners'[kind] = NoneObj
            /\ ~CtorRaised(last') =>
                  /\ last'.fit # ""
                  /\ last'.fitData = last'.data
                  /\ last'.fitBy = learners'[kind]
                  /\ last'.fitBy.cls = FitsAt(klass.fits, kind).cname
                  /\ last'.fitBy.id.kind = kind]_vars

\* C1 witness: a call on data with a discrete target was fitted by the
\* classification learner, and no regression learner is cached
C1_Witness ==
    /\ BothBound
    /\ last.op = "call"
    /\ last.data.has_discrete_class
    /\ last.fit = "ok"
    /\ last.fitBy.cls = "ClsLearner"
    /\ learners[CLASSIFICATION] # NoneObj
    /\ learners[REGRESSION] = NoneObj

\* the last operation resolved a learner (call, get_learner or getattr)
Resolved(l) == l.op \in {"call", "get_learner", "getattr"} /\ l.learner # NoneObj

\* C2 as stated: on one instance the learner constructor of a kind is called
\* at most once, and two successive calls on data of the same target kind
\* use the identical learner.
C2_ConstructedAtMostOnce_Original ==
    [][/\ \A kind \in ProblemTypes : ctorCalls'[kind] <= 1
       /\ (last.op = "call" /\ last'.op = "call" /\ last.arg = last'.arg
              /\ last.learner # NoneObj /\ last'.learner # NoneObj)
             => last'.learner = last.learner]_vars

\* C2 amended: the learner constructor of a kind is called only while no
\* learner of the kind is cached, one call per operation, and a call that
\* returns a learner caches it; a cached learner is never replaced, so the
\* constructor returns at most once per kind, and every operation that
\* resolves a learner of the kind gets that identical learner: two successive
\* calls on data of the same target kind that reach a learner use the same one.
C2_ConstructedAtMostOnce ==
    [][/\ \A kind \in ProblemTypes :
            /\ ctorCalls'[kind] # ctorCalls[kind] =>
                  /\ learners[kind] = NoneObj
                  /\ ctorCalls'[kind] = ctorCalls[kind] + 1
                  /\ last'.ctor = "ok" => learners'[kind] = last'.learner
                  /\ last'.ctor # "ok" => learners'[kind] = NoneObj
            /\ learners[kind] # NoneObj => learners'[kind] = learners[kind]
            /\ learners'[kind] # learners[kind] =>
                  ctorCalls'[kind] # ctorCalls[kind]
       /\ Resolved(last') => last'.learner = learners'[last'.arg]
       /\ (last.op = "call" /\ last'.op = "call" /\ last.arg = last'.arg
              /\ last.learner # NoneObj /\ last'.learner # NoneObj)
             => last'.learner = last.learner]_vars

\* C2 witness: a second call on data of the same kind reused the learner that
\* the first built, after a constructor call that raised
C2_Witness ==
    /\ last.op = "call"
    /\ last.ctor = ""
    /\ last.fit = "ok"
    /\ last.learner = learners[last.arg]
    /\ hist.served = last.learner
    /\ ctorCalls[last.arg] = 2

\* C3: where the binding's slot for a kind is None, a call on data of that
\* kind and get_learner of that kind raise AttributeError, call no learner
\* constructor and leave the cache as it was.
C3_UnsupportedKindRaises ==
    [][\A kind \in ProblemTypes :
         (/\ NullSlot(kind)
          /\ \/ last'.op = "call" /\ TargetKind(last'.data) = kind
             \/ last'.op = "get_learner" /\ last'.arg = kind)
         => /\ last'.raised = "AttributeError"
            /\ last'.ctor = ""
            /\ last'.fit = ""
            /\ last'.learner = NoneObj
            /\ learners' = learners
            /\ ctorCalls' = ctorCalls]_vars

\* C3 witness: a subtype that binds only a classification learner was called
\* on data with a continuous target, after it had cached its classifier
C3_Witness ==
    /\ NullSlot(REGRESSION)
    /\ klass.fits.classification # NoneObj
    /\ last.op = "call"
    /\ ~last.data.has_discrete_class
    /\ last.raised = "AttributeError"
    /\ learners[CLASSIFICATION] # NoneObj
    /\ learners[REGRESSION] = NoneObj

\* C4 as stated: a learner is constructed with exactly the entries of the
\* configuration whose keys are parameters of its constructor, each with its
\* value, and the other keys cause no error.
C4_ParameterFiltering ==
    (last.ctor # "") =>
        /\ last.ctorArgs = [k \in DOMAIN kwargs \cap Params(last.ctorCls) |-> kwargs[k]]
        /\ last.ctor # "TypeError"

\* C5 as stated: once a call has returned a model, reading an attribute the
\* learner defines returns, in every later state, the value held by the
\* learner that the most recent call that returned a model used.
C5_ProxyReadsServedLearner_Original ==
    (/\ last.op = "getattr"
     /\ hist.served # NoneObj
     /\ last.item \in DOMAIN hist.served)
    => /\ last.raised = ""
       /\ last.learner = hist.served
       /\ last.ret = hist.served[last.item]

\* C5 amended: once a call has returned a model, reading an attribute the
\* learner defines returns the value held by the learner that the most
\* recent call that returned a model used, in every later state in which the
\* most recent call, whether it returned or raised, was on data of that
\* learner's kind.
C5_ProxyReadsServedLearner ==
    (/\ last.op = "getattr"
     /\ hist.served # NoneObj
     /\ hist.invoked = hist.served.id.kind
     /\ last.item \in DOMAIN hist.served)
    => /\ last.raised = ""
       /\ last.ctor = ""
       /\ last.learner = hist.served
       /\ last.ret = hist.served[last.item]

\* C5 witness: an attribute was read from the regression learner that the
\* last successful call used, with a classification learner cached as well
C5_Witness ==
    /\ last.op = "getattr"
    /\ last.item = "args"
    /\ last.raised = ""
    /\ hist.served # NoneObj
    /\ hist.invoked = REGRESSION
    /\ last.learner = hist.served
    /\ last.ret = hist.served.args
    /\ learners[CLASSIFICATION] # NoneObj

\* C6: before the first call of the instance on data, reading an attribute
\* the Fitter does not define raises AttributeError, whatever the subtype
\* binds, calls no learner constructor and leaves the cache as it was.
C6_ProxyBeforeCallRaises ==
    [][(last'.op = "getattr" /\ hist'.invoked = None) =>
        /\ last'.raised = "AttributeError"
        /\ last'.ctor = ""
        /\ last'.learner = NoneObj
        /\ learners' = learners
        /\ ctorCalls' = ctorCalls]_vars

\* C6 witness: an attribute was read before any call on data, on a subtype
\* that binds both learners and has a learner cached by get_learner
C6_Witness ==
    /\ BothBound
    /\ last.op = "getattr"
    /\ hist.invoked = None
    /\ last.raised = "AttributeError"
    /\ learners[REGRESSION] # NoneObj
    /\ learners[CLASSIFICATION] = NoneObj

\* C7: a learner that get_learner has just constructed carries the Fitter's
\* use_default_preprocessors of that moment, as returned and as cached,
\* whatever keys of the configuration the constructor was given.
C7_FlagPropagated ==
    [][last'.ctor = "ok" =>
        /\ use_default_preprocessors' = use_default_preprocessors
        /\ last'.learner.use_default_preprocessors = use_default_preprocessors
        /\ learners'[last'.arg].use_default_preprocessors = use_default_preprocessors]_vars

\* C7 witness: a learner was built with some configuration keys dropped while
\* the Fitter's flag was set
C7_Witness ==
    /\ last.ctor = "ok"
    /\ use_default_preprocessors
    /\ last.learner.use_default_preprocessors
    /\ DOMAIN last.ctorArgs # DOMAIN kwargs
    /\ DOMAIN last.ctorArgs # {}

\* C8 as stated: a subtype whose definition gives no LearnerTypes as __fits__
\* is never defined, so no instance of it exists.
C8_MissingBindingRejected ==
    klass # NoneObj => IsLearnerTypes(klass.fits)

\* C9: what the learner's constructor raises, and what the learner raises on
\* the data, is what call and get_learner raise; the constructor is called
\* once at most, of the kind asked for, and after it raised no learner is
\* used or cached; what the learner returns is what call returns.
C9_LearnerErrorsPropagate ==
    [][last'.op \in {"call", "get_learner"} =>
        /\ CtorRaised(last') =>
              /\ last'.raised = last'.ctor
              /\ last'.fit = ""
              /\ last'.ret = NoneObj
              /\ learners' = learners
        /\ last'.ctor # "" =>
              /\ last'.ctorCls = FitsAt(klass.fits, last'.arg)
              /\ ctorCalls' = [ctorCalls EXCEPT ![last'.arg] = @ + 1]
        /\ last'.ctor = "" => ctorCalls' = ctorCalls
        /\ last'.fit \notin {"", "ok"} =>
              /\ last'.raised = last'.fit
              /\ last'.ret = NoneObj
        /\ last'.fit = "ok" =>
              /\ last'.raised = ""
              /\ last'.ret = last'.fitRet
              /\ last'.ret.model_of = last'.learner.id]_vars

\* C9 witness: a call raised the error of the learner's constructor while a
\* learner of the other kind was cached
C9_Witness ==
    /\ BothBound
    /\ last.op = "call"
    /\ last.ctor = "CtorError"
    /\ last.raised = "CtorError"
    /\ learners[last.arg] = NoneObj
    /\ learners[Other(last.arg)] # NoneObj

\* C10 as stated: problem_type is None until the first call on data, and
\* once it is not None no operation changes it.
C10_ProblemTypeSetOnce_Original ==
    [][/\ hist.invoked = None => problem_type = None
       /\ problem_type # None => problem_type' = problem_type]_vars

\* C10 amended: problem_type is None from construction until the first call
\* on data; every call sets it to the target kind of its own data, replacing
\* the value of an earlier call, and no other operation changes it.
C10_ProblemTypeSetByCall ==
    [][/\ hist.invoked = None => problem_type = None
       /\ last'.op = "call" => problem_type' = TargetKind(last'.data)
       /\ last'.op # "call" => problem_type' = problem_type]_vars

\* C10 witness: a call on data with a continuous target after one on data
\* with a discrete target
C10_Witness ==
    /\ last.op = "call"
    /\ problem_type = REGRESSION
    /\ ~last.data.has_discrete_class
    /\ hist.served # NoneObj
    /\ hist.served.id.kind = CLASSIFICATION

\* the kinds whose cache slot holds a learner
Populated == {kind \in ProblemTypes : learners[kind] # NoneObj}

\* C11 as stated: at most one cache slot is populated, and a populated slot
\* is the one of problem_type.
C11_OneSlotPopulated_Original ==
    /\ Cardinality(Populated) <= 1
    /\ \A kind \in Populated : kind = problem_type

\* C11 amended: an operation populates at most one cache slot: a call the
\* slot of the problem_type it has just set, the kind of its data;
\* get_learner(kind) the slot of kind; an attribute read the slot of
\* problem_type.  A populated slot stays populated, so both slots can be
\* populated, one of them not the slot of problem_type.
C11_SlotPopulatedByItsKind ==
    [][\A kind \in ProblemTypes :
         /\ learners[kind] # NoneObj => learners'[kind] # NoneObj
         /\ (learners[kind] = NoneObj /\ learners'[kind] # NoneObj) =>
               /\ learners'[Other(kind)] = learners[Other(kind)]
               /\ last'.op \in {"call", "get_learner", "getattr"}
               /\ last'.op = "call" =>
                     kind = TargetKind(last'.data) /\ kind = problem_type'
               /\ last'.op = "get_learner" => kind = last'.arg
               /\ last'.op = "getattr" =>
                     kind = problem_type /\ problem_type' = problem_type]_vars

\* C11 witness: both slots are populated after calls on data of both kinds
C11_Witness ==
    /\ Populated = ProblemTypes
    /\ problem_type = CLASSIFICATION
    /\ last.op = "call"
    /\ last.was = REGRESSION
    /\ last.ctor = "ok"

\* C12: every call sets problem_type to the kind of its own data, whatever it
\* was, and resolves and fits with the learner of that kind; the cache slot
\* of the other kind is left as it was, and a learner cached for the kind of
\* the data is used as it is, without a constructor call.
C12_KindSwitching ==
    [][last'.op = "call" =>
        LET kind == TargetKind(last'.data)
        IN  /\ problem_type' = kind
            /\ last'.arg = kind
            /\ learners'[Other(kind)] = learners[Other(kind)]
            /\ last'.fit # "" =>
                  /\ last'.fitBy = learners'[kind]
                  /\ last'.fitBy.id.kind = kind
            /\ learners[kind] # NoneObj =>
                  /\ last'.ctor = ""
                  /\ ctorCalls' = ctorCalls
                  /\ last'.learner = learners[kind]
                  /\ learners'[kind] = learners[kind]]_vars

\* C12 witness: a call switched back to a kind whose learner an earlier call
\* had built, with the learner of the kind left behind still cached
C12_Witness ==
    /\ last.op = "call"
    /\ last.was # None
    /\ last.was = Other(last.arg)
    /\ last.ctor = ""
    /\ last.fit = "ok"
    /\ last.fitBy.id = [kind |-> last.arg, n |-> 1]
    /\ learners[last.was] # NoneObj
    /\ problem_type = last.arg

C15_ConfigUnchanged ==
    [][created =>
        /\ kwargs' = kwargs
        /\ "preprocessors" \in DOMAIN kwargs']_vars

\* C15 witness: a call built a learner from a part of the configuration, and
\* the configuration is whole
C15_Witness ==
    /\ last.op = "call"
    /\ last.ctor = "ok"
    /\ DOMAIN kwargs = {"a", "b", "c", "preprocessors"}
    /\ DOMAIN last.ctorArgs = {"a", "b"}
    /\ kwargs.c = AllConfig.c

\* a call raised AttributeError because the binding has no learner for the
\* kind of its data
UnsupportedCall(l) ==
    /\ l.op = "call"
    /\ l.raised = "AttributeError"
    /\ NullSlot(TargetKind(l.data))

\* C16 as stated: a call that raises AttributeError for an unsupported kind
\* leaves the instance as it was, problem_type included.
C16_FailedCallChangesNothing_Original ==
    [][UnsupportedCall(last') =>
        /\ problem_type' = problem_type
        /\ learners' = learners
        /\ kwargs' = kwargs
        /\ use_default_preprocessors' = use_default_preprocessors]_vars

\* C16 amended: a call that raises AttributeError for an unsupported kind
\* leaves the cache, the configuration and the flag as they were and sets
\* problem_type to the unsupported kind of its data; an attribute read after
\* it raises AttributeError and resolves no learner, also when an earlier
\* call returned a model.
C16_FailedCallSetsProblemType ==
    [][/\ UnsupportedCall(last') =>
             /\ problem_type' = TargetKind(last'.data)
             /\ learners' = learners
             /\ ctorCalls' = ctorCalls
             /\ kwargs' = kwargs
             /\ use_default_preprocessors' = use_default_preprocessors
       /\ (UnsupportedCall(last) /\ last'.op = "getattr") =>
             /\ last'.raised = "AttributeError"
             /\ last'.learner = NoneObj
             /\ learners' = learners]_vars

\* C16 witness: an attribute read raised after a call on an unsupported kind
\* that followed a call served by the learner still cached
C16_Witness ==
    /\ last.op = "getattr"
    /\ last.raised = "AttributeError"
    /\ NullSlot(problem_type)
    /\ hist.served # NoneObj
    /\ hist.invoked = problem_type
    /\ learners[Other(problem_type)] = hist.served

\* C18 as stated: a learner that an operation resolves has the Fitter's
\* current use_default_preprocessors.
C18_FlagCurrent_Original ==
    Resolved(last) =>
        last.learner.use_default_preprocessors = use_default_preprocessors

\* C18 amended: a learner that an operation resolves has the
\* use_default_preprocessors the Fitter had when the learner was constructed:
\* the Fitter's flag when the operation constructs it, and else the flag the
\* cached learner had before; changing the Fitter's flag changes no cached
\* learner.
C18_FlagOfConstruction ==
    [][/\ \A kind \in ProblemTypes :
            learners[kind] # NoneObj =>
               /\ learners'[kind] # NoneObj
               /\ learners'[kind].use_default_preprocessors =
                     learners[kind].use_default_preprocessors
       /\ (Resolved(last') /\ last'.ctor = "") =>
             /\ learners[last'.arg] # NoneObj
             /\ last'.learner.use_default_preprocessors =
                   learners[last'.arg].use_default_preprocessors
       /\ last'.ctor = "ok" =>
             last'.learner.use_default_preprocessors = use_default_preprocessors]_vars

\* C18 witness: a cached learner was resolved that does not have the flag
\* the Fitter has now
C18_Witness ==
    /\ Resolved(last)
    /\ last.ctor = ""
    /\ use_default_preprocessors
    /\ ~last.learner.use_default_preprocessors

\* C19: a populated cache slot is of a kind the binding has a learner class
\* for, and holds a learner built by that class for that kind; after a
\* constructor call that raised the slot is empty, and every operation that
\* resolves a handled kind whose slot is empty calls the constructor.
C19_CacheHoldsBoundLearner ==
    [][/\ \A kind \in ProblemTypes :
            learners'[kind] # NoneObj =>
               /\ IsLearnerTypes(klass.fits)
               /\ FitsAt(klass.fits, kind) # NoneObj
               /\ learners'[kind].cls = FitsAt(klass.fits, kind).cname
               /\ learners'[kind].id.kind = kind
       /\ CtorRaised(last') => learners'[last'.arg] = NoneObj
       /\ (/\ last'.op \in {"call", "get_learner", "getattr"}
           /\ IsLearnerTypes(klass.fits)
           /\ last'.arg \in ProblemTypes
           /\ FitsAt(klass.fits, last'.arg) # NoneObj
           /\ learners[last'.arg] = NoneObj)
          => /\ last'.ctor # ""
             /\ last'.ctorCls = FitsAt(klass.fits, last'.arg)
             /\ ctorCalls'[last'.arg] = ctorCalls[last'.arg] + 1]_vars

\* C19 witness: get_learner built the learner of a kind with the second
\* constructor call, the first having raised
C19_Witness ==
    /\ last.op = "get_learner"
    /\ last.ctor = "ok"
    /\ ctorCalls[last.arg] = 2
    /\ learners[last.arg].id = [kind |-> last.arg, n |-> 2]
    /\ learners[last.arg].cls = FitsAt(klass.fits, last.arg).cname

----------------------------------------------------------------------------
(* Properties of the two-thread specification *)

\* the threads that hold a learner they constructed themselves
Built(t) == thr[t].local # NoneObj

\* the threads whose call fitted with a learner
Fitted(t) == thr[t].fitBy # NoneObj

\* C14: the test of the slot (line 61) and its assignment (line 65) are
\* separate steps with no lock between them.  A thread calls the constructor
\* only after it read the slot as None, every call of the constructor makes a
\* new instance, and nothing else limits construction: two threads that both
\* read the slot as None both construct, and the slot keeps the instance
\* stored last.
C14_CheckThenPopulateNotAtomic ==
    /\ \A t \in Threads :
          thr[t].pc \in {"construct", "flag", "store"} \/ Built(t)
             => thr[t].sawEmpty
    /\ \A t, u \in Threads :
          t # u /\ Built(t) /\ Built(u) => thr[t].local.id # thr[u].local.id
    /\ \A k \in ProblemTypes :
          ctorCalls[k] <=
             Cardinality({t \in Threads : thr[t].kind = k /\ thr[t].sawEmpty})

\* C14: both threads called on data of one kind, the kind's learner was
\* constructed twice, and the two calls fitted with different instances.
C14_Witness ==
    \E t, u \in Threads :
       /\ t # u
       /\ thr[t].pc = "done" /\ thr[u].pc = "done"
       /\ thr[t].kind = thr[u].kind
       /\ ctorCalls[thr[t].kind] = 2
       /\ Built(t) /\ Built(u)
       /\ Fitted(t) /\ Fitted(u)
       /\ thr[t].fitBy.id # thr[u].fitBy.id

\* C17 as stated: with both kinds bound, every call fits its data with the
\* learner of its own data's kind, however the threads interleave.
C17_EachFitsOwnKind_Original ==
    BothBound =>
       \A t \in Threads :
          Fitted(t) =>
             thr[t].fitBy.cls = FitsAt(klass.fits, TargetKind(thr[t].data)).cname

\* C17: a call fits its data with the learner of the kind it read back from
\* self.problem_type at line 53; that is the kind of its own data unless
\* another thread assigned self.problem_type between this call's assignment
\* (lines 51-52) and its read.
C17_FitsKindReadBack ==
    \A t \in Threads :
       /\ Fitted(t) => thr[t].fitBy.cls = FitsAt(klass.fits, thr[t].kind).cname
       /\ (thr[t].kind # None /\ ~thr[t].raced)
             => thr[t].kind = TargetKind(thr[t].data)

\* C17: both kinds bound, the two threads called on data of different kinds,
\* one was overtaken between its assignment and its read and fitted with the
\* other kind's learner, the other fitted with its own kind's learner.
C17_Witness ==
    \E t, u \in Threads :
       /\ t # u /\ BothBound
       /\ thr[t].pc = "done" /\ thr[u].pc = "done"
       /\ Fitted(t) /\ Fitted(u)
       /\ TargetKind(thr[t].data) # TargetKind(thr[u].data)
       /\ thr[t].raced /\ thr[t].kind # TargetKind(thr[t].data)
       /\ ~thr[u].raced /\ thr[u].kind = TargetKind(thr[u].data)

====
